---- MODULE Spec2Model ----
(***************************************************************************)
(* Conway's Game of Life on an 8x8 LED matrix (lIJfe.ino, packed-bits      *)
(* sketch): the three global boards, the rule engine, the shift with its   *)
(* terminal-state flags, and the seeder with its perturbation loop.        *)
(***************************************************************************)
EXTENDS Integers, Sequences, FiniteSets, TLC

VARIABLES
    gameboard,     \* byte gameboard[8]: the current board, bit col of byte row
    newgameboard,  \* byte newgameboard[8]: the scratch board of the next generation
    oldgameboard,  \* byte oldgameboard[8]: the board before the last shift
    pc,            \* "setup", "perturb", "loop" (before calculateNewGameBoard), "swap"
    numChanges,    \* perturbInitialGameBoard: the number of toggles drawn
    i,             \* perturbInitialGameBoard: the loop counter
    ret,           \* the caller setUpInitialBoard returns to: "setup" or "swap"
    mode,          \* the branch the last setUpInitialBoard took
    flags,         \* stable, dead, repeat of the last swapGameBoards
    events,        \* what the current cycle has done so far, in order
    pre,           \* gameboard as it was before the last shift
    gen,           \* shifts since startup, counted up to GenCap
    blinkerRun,    \* the loop started from a blinker and no reseed has changed the board
    perturbs,      \* perturbing seeder runs so far
    noise,         \* the readings the unconnected analog pins give in this execution
    seed,          \* setUpInitialBoard: int seed, the reading of its last call
    rngSeed,       \* the argument of the last randomSeed()
    eeprom,        \* the bytes at EEPROM_ADDRESS_1 and EEPROM_ADDRESS_2
    before,        \* gameboard as the running or last perturbInitialGameBoard found it
    odd,           \* the cells that call has sampled an odd number of times
    terminals,     \* consecutive cycles that reseeded, counted up to TerminalCap
    gameBoard,     \* boolean-grid sketch: boolean gameBoard[NUMROWS][NUMCOLS]
    newGameBoard,  \* boolean-grid sketch: boolean newGameBoard[NUMROWS][NUMCOLS]
    gridGameboard  \* boolean-grid sketch: byte gameboard[], the bytes displayed

vars == <<gameboard, newgameboard, oldgameboard, pc, numChanges, i, ret, mode,
          flags, events, pre, gen, blinkerRun, perturbs,
          noise, seed, rngSeed, eeprom, before, odd, terminals,
          gameBoard, newGameBoard, gridGameboard>>

\* the variables of the boolean-grid sketch
gridVars == <<gameBoard, newGameBoard, gridGameboard>>

NUMROWS == 8
NUMCOLS == 8

\* ---------------------------------------------------------------- bounds
\* random(20,100) is drawn from 20..MaxNumChanges.
MaxNumChanges == 21
\* random(0,NUMROWS), random(0,NUMCOLS) yield one of the first MaxSampleCells
\* pairs of SampleOrder.
MaxSampleCells == 3
\* Seeder runs that perturb the board, per execution.
MaxPerturbs == 1
\* gen stops counting here.
GenCap == 3
\* terminals stops counting here.
TerminalCap == 2

\* ------------------------------------------------------------ the boards
\* gameboard[] initialiser, one byte per row
gameboardInit == <<0, 48, 96, 32, 0, 0, 0, 0>>
\* all cells alive
FullBoard == <<255, 255, 255, 255, 255, 255, 255, 255>>

\* the all-dead board
zeroBoardInit == <<0, 0, 0, 0, 0, 0, 0, 0>>
\* newgameboard[] initialiser
newgameboardInit == <<0, 0, 0, 0, 0, 0, 0, 0>>

\* mutant of oldgameboardInit: initialised like gameboard
oldgameboardInitLikeGameboard == <<0, 48, 96, 32, 0, 0, 0, 0>>

\* oldgameboard[] initialiser
oldgameboardInit == <<0, 0, 0, 0, 0, 0, 0, 0>>

\* ------------------------------------------------- Arduino bit primitives
bitRead(value, bit) == (value \div (2 ^ bit)) % 2

bitSet(value, bit) == IF bitRead(value, bit) = 1 THEN value ELSE (value + 2 ^ bit) % 256

bitClear(value, bit) == IF bitRead(value, bit) = 1 THEN value - 2 ^ bit ELSE value

bitWrite(value, bit, bitvalue) == IF bitvalue # 0 THEN bitSet(value, bit) ELSE bitClear(value, bit)

\* conversion of an int to the char parameters of isCellAlive; plain char is
\* the signed 8-bit type of the AVR build the sketch names (avr/EEPROM.h)
ToChar(x) == ((x + 128) % 256) - 128

\* mutant of isCellAlive: the coordinates wrap around the board
isCellAliveWraps(board, row, col) ==
    bitRead(board[(row % NUMROWS) + 1], col % NUMCOLS) = 1

\* ------------------------------------------------------------ rule engine
isCellAlive(board, row, col) ==
    IF row < 0 \/ col < 0 \/ row >= NUMROWS \/ col >= NUMCOLS
    THEN FALSE
    ELSE bitRead(board[row + 1], col) = 1

\* mutant of countCols: the centre cell is not skipped
RECURSIVE countColsWithCentre(_, _, _, _, _, _)
countColsWithCentre(board, row, col, rowDelta, colDelta, count) ==
    IF colDelta > 1 THEN count
    ELSE IF isCellAlive(board, ToChar(rowDelta + row), ToChar(colDelta + col))
         THEN countColsWithCentre(board, row, col, rowDelta, colDelta + 1, (count + 1) % 256)
         ELSE countColsWithCentre(board, row, col, rowDelta, colDelta + 1, count)

\* the inner loop over colDelta
RECURSIVE countCols(_, _, _, _, _, _)
countCols(board, row, col, rowDelta, colDelta, count) ==
    IF colDelta > 1 THEN count
    ELSE IF ~(colDelta = 0 /\ rowDelta = 0)
            /\ isCellAlive(board, ToChar(rowDelta + row), ToChar(colDelta + col))
         THEN countCols(board, row, col, rowDelta, colDelta + 1, (count + 1) % 256)
         ELSE countCols(board, row, col, rowDelta, colDelta + 1, count)

\* the outer loop over rowDelta
RECURSIVE countRows(_, _, _, _, _)
countRows(board, row, col, rowDelta, count) ==
    IF rowDelta > 1 THEN count
    ELSE countRows(board, row, col, rowDelta + 1,
                   countCols(board, row, col, rowDelta, -1, count))

countNeighbors(board, row, col) == countRows(board, row, col, -1, 0)

\* mutant of calcRule: no death by overcrowding
calcRuleNoOvercrowding(here, numNeighbors, newrow, col) ==
    IF here /\ numNeighbors < 2 THEN bitClear(newrow, col)
    ELSE IF here /\ numNeighbors >= 2 THEN bitSet(newrow, col)
    ELSE IF ~here /\ numNeighbors = 3 THEN bitSet(newrow, col)
    ELSE bitClear(newrow, col)

\* mutant of calcRule: a dead cell that stays dead is not written
calcRuleSkipsDead(here, numNeighbors, newrow, col) ==
    IF here /\ numNeighbors < 2 THEN bitClear(newrow, col)
    ELSE IF here /\ (numNeighbors = 2 \/ numNeighbors = 3) THEN bitSet(newrow, col)
    ELSE IF here /\ numNeighbors > 3 THEN bitClear(newrow, col)
    ELSE IF ~here /\ numNeighbors = 3 THEN bitSet(newrow, col)
    ELSE newrow

\* the if-chain of the inner loop body: the new value of newgameboard[row]
calcRule(here, numNeighbors, newrow, col) ==
    IF here /\ numNeighbors < 2 THEN bitClear(newrow, col)
    ELSE IF here /\ (numNeighbors = 2 \/ numNeighbors = 3) THEN bitSet(newrow, col)
    ELSE IF here /\ numNeighbors > 3 THEN bitClear(newrow, col)
    ELSE IF ~here /\ numNeighbors = 3 THEN bitSet(newrow, col)
    ELSE bitClear(newrow, col)

calcCell(board, newrow, row, col) ==
    calcRule(bitRead(board[row + 1], col) # 0, countNeighbors(board, row, col), newrow, col)

\* the inner loop over col: newgameboard[row] after the columns from col on
RECURSIVE calcCols(_, _, _, _)
calcCols(board, newrow, row, col) ==
    IF col >= NUMCOLS THEN newrow
    ELSE calcCols(board, calcCell(board, newrow, row, col), row, col + 1)

\* the outer loop over row
RECURSIVE calcRows(_, _, _)
calcRows(board, new, row) ==
    IF row >= NUMROWS THEN new
    ELSE calcRows(board,
                  [new EXCEPT ![row + 1] = calcCols(board, new[row + 1], row, 0)],
                  row + 1)

calculateNewGameBoard(board, new) == calcRows(board, new, 0)

\* --------------------------------------------- boards as sets of cells
Cells == (0..(NUMROWS - 1)) \X (0..(NUMCOLS - 1))

\* the alive cells <<row, col>> of a packed board
AliveCells(board) == {p \in Cells : (board[p[1] + 1] \div (2 ^ p[2])) % 2 = 1}

\* a 2x2 block that touches no edge, and nothing else
IsBlock(board) ==
    \E r \in 1..(NUMROWS - 3), c \in 1..(NUMCOLS - 3) :
        AliveCells(board) = {<<r, c>>, <<r, c + 1>>, <<r + 1, c>>, <<r + 1, c + 1>>}

\* three cells in a row or in a column, none on an edge, and nothing else
IsBlinker(board) ==
    \E r \in 1..(NUMROWS - 2), c \in 1..(NUMCOLS - 2) :
        \/ (c >= 2 /\ c <= NUMCOLS - 3
            /\ AliveCells(board) = {<<r, c - 1>>, <<r, c>>, <<r, c + 1>>})
        \/ (r >= 2 /\ r <= NUMROWS - 3
            /\ AliveCells(board) = {<<r - 1, c>>, <<r, c>>, <<r + 1, c>>})

\* mutant of swapRow: the row is copied before stable is tested
swapRowCopiesFirst(st, row) ==
    [game   |-> [st.game EXCEPT ![row + 1] = st.new[row + 1]],
     new    |-> st.new,
     old    |-> [st.old EXCEPT ![row + 1] = st.game[row + 1]],
     stable |-> IF st.new[row + 1] # st.new[row + 1] THEN FALSE ELSE st.stable,
     dead   |-> IF st.game[row + 1] # 0 THEN FALSE ELSE st.dead,
     repeat |-> IF st.old[row + 1] # st.new[row + 1] THEN FALSE ELSE st.repeat]

\* mutant of swapRow: oldgameboard[row] is overwritten before repeat is tested
swapRowRepeatAfterCopy(st, row) ==
    [game   |-> [st.game EXCEPT ![row + 1] = st.new[row + 1]],
     new    |-> st.new,
     old    |-> [st.old EXCEPT ![row + 1] = st.game[row + 1]],
     stable |-> IF st.game[row + 1] # st.new[row + 1] THEN FALSE ELSE st.stable,
     dead   |-> IF st.game[row + 1] # 0 THEN FALSE ELSE st.dead,
     repeat |-> IF st.game[row + 1] # st.new[row + 1] THEN FALSE ELSE st.repeat]

\* mutant of swapRow: dead is tested on the next board
swapRowDeadOnNext(st, row) ==
    [game   |-> [st.game EXCEPT ![row + 1] = st.new[row + 1]],
     new    |-> st.new,
     old    |-> [st.old EXCEPT ![row + 1] = st.game[row + 1]],
     stable |-> IF st.game[row + 1] # st.new[row + 1] THEN FALSE ELSE st.stable,
     dead   |-> IF st.new[row + 1] # 0 THEN FALSE ELSE st.dead,
     repeat |-> IF st.old[row + 1] # st.new[row + 1] THEN FALSE ELSE st.repeat]

\* ------------------------------------------------------------ the shift
\* mutant of swapRow: the two copies in the other order, so that oldgameboard
\* receives the row just copied from newgameboard
swapRowOldTakesNew(st, row) ==
    [game   |-> [st.game EXCEPT ![row + 1] = st.new[row + 1]],
     new    |-> st.new,
     old    |-> [st.old EXCEPT ![row + 1] = st.new[row + 1]],
     stable |-> IF st.game[row + 1] # st.new[row + 1] THEN FALSE ELSE st.stable,
     dead   |-> IF st.game[row + 1] # 0 THEN FALSE ELSE st.dead,
     repeat |-> IF st.old[row + 1] # st.new[row + 1] THEN FALSE ELSE st.repeat]

\* one pass of the row loop of swapGameBoards
swapRow(st, row) ==
    [game   |-> [st.game EXCEPT ![row + 1] = st.new[row + 1]],
     new    |-> st.new,
     old    |-> [st.old EXCEPT ![row + 1] = st.game[row + 1]],
     stable |-> IF st.game[row + 1] # st.new[row + 1] THEN FALSE ELSE st.stable,
     dead   |-> IF st.game[row + 1] # 0 THEN FALSE ELSE st.dead,
     repeat |-> IF st.old[row + 1] # st.new[row + 1] THEN FALSE ELSE st.repeat]

RECURSIVE swapLoop(_, _)
swapLoop(st, row) ==
    IF row >= NUMROWS THEN st ELSE swapLoop(swapRow(st, row), row + 1)

\* the boards and the three flags after the row loop
swapGameBoards(game, new, old) ==
    swapLoop([game |-> game, new |-> new, old |-> old,
              stable |-> TRUE, dead |-> TRUE, repeat |-> TRUE], 0)

\* the condition of the first branch after the row loop: the ij sprite
showsSprite(st) == st.dead

\* mutant of reseeds: only repeat is tested
reseedsOnRepeatOnly(st) == st.repeat

\* mutant of reseeds: the second branch is an else-branch of the first
reseedsUnlessDead(st) == ~st.dead /\ (st.stable \/ st.repeat)

\* the condition of the second branch after the row loop: the reseed
reseeds(st) == st.stable \/ st.repeat

\* ------------------------------------------------------------- the seeder
\* analogRead(RANDOMIZER_ANALOG_PIN): both sides of the two thresholds
PinValues == {0, 300, 301, 900, 901, 1023}

\* the branch of setUpInitialBoard taken for a pin reading
selector(randomizerPinValue) ==
    IF randomizerPinValue > 900 THEN "HIGH"
    ELSE IF randomizerPinValue > 300 THEN "MID"
    ELSE "LOW"

\* the (row, col) pairs random() is let to return, in this order
SampleOrder == << <<2, 6>>, <<1, 4>>, <<3, 5>>, <<2, 4>>, <<1, 5>>, <<2, 5>>, <<0, 0>>, <<7, 7>> >>

SampleCells == {SampleOrder[k] : k \in 1..MaxSampleCells}

\* mutant of toggle: the sampled cell is set
toggleSets(board, row, col) ==
    [board EXCEPT ![row + 1] = bitWrite(@, col, 1)]

\* the toggle of one iteration of perturbInitialGameBoard
toggle(board, row, col) ==
    [board EXCEPT ![row + 1] =
        bitWrite(@, col, IF bitRead(@, col) # 0 THEN 0 ELSE 1)]

\* mutant of USE_EEPROM: the #define is enabled
USE_EEPROM_Enabled == TRUE

\* //#define USE_EEPROM 1 : the EEPROM code is compiled out
USE_EEPROM == FALSE

\* conversion to the 16-bit int of the build
ToInt(x) == ((x + 32768) % 65536) - 32768

\* randomSeed(seed): the value the generator is seeded with
randomSeed(s) == s

\* the HIGH branch up to randomSeed, entered with the EEPROM bytes ee and
\* seed = s: the EEPROM bytes, seed and the RNG seed it leaves
highSeeding(ee, s) ==
    [eeprom |-> IF USE_EEPROM THEN <<s % 256, (s \div 256) % 256>> ELSE ee,
     seed |-> s,
     rngSeed |-> randomSeed(s)]

\* the MID branch up to randomSeed: seed = (hi << 8) | lo only with USE_EEPROM
midSeed(ee, s) == IF USE_EEPROM THEN ToInt(ee[2] * 256 + ee[1]) ELSE s

\* the MID branch up to randomSeed, entered with the EEPROM bytes ee and
\* seed = s: the EEPROM bytes, seed and the RNG seed it leaves
midSeeding(ee, s) ==
    [eeprom |-> ee,
     seed |-> midSeed(ee, s),
     rngSeed |-> randomSeed(midSeed(ee, s))]

\* mutant of lowBoard: the LOW branch reloads the hard-coded board
lowBoardReloads(board) == gameboardInit

\* the LOW branch: "Using basic board." is printed, gameboard is not written
lowBoard(board) == board

\* setUpInitialBoard, called from `caller` with gameboard = board, the RNG
\* seeded with rng and the cycle's events so far `ev`: HIGH and MID seed the
\* RNG, draw numChanges and enter the perturbation loop; LOW returns at once
\* and the caller renders gameboard.
setUpInitialBoard(caller, ev, board, rng) ==
    \E s \in noise, randomizerPinValue \in PinValues :
        LET sel == selector(randomizerPinValue)
        IN  /\ mode' = sel
            /\ IF sel \in {"HIGH", "MID"}
               THEN /\ perturbs < MaxPerturbs
                    /\ \E sd \in {IF sel = "HIGH" THEN highSeeding(eeprom, s)
                                  ELSE midSeeding(eeprom, s)} :
                          /\ eeprom' = sd.eeprom
                          /\ seed' = sd.seed
                          /\ rngSeed' = sd.rngSeed
                    /\ \E n \in 20..MaxNumChanges : numChanges' = n
                    /\ i' = 0
                    /\ ret' = caller
                    /\ perturbs' = perturbs + 1
                    /\ events' = Append(ev, "seeder")
                    /\ pc' = "perturb"
                    /\ gameboard' = board
                    /\ before' = board
                    /\ odd' = {}
                    /\ UNCHANGED blinkerRun
               ELSE /\ gameboard' = lowBoard(board)
                    /\ events' = ev \o <<"seeder", "sprite_board">>
                    /\ pc' = "loop"
                    /\ blinkerRun' = IF caller = "setup" THEN IsBlinker(gameboard')
                                     ELSE blinkerRun /\ gameboard' = board
                    /\ seed' = s
                    /\ rngSeed' = rng
                    /\ UNCHANGED <<numChanges, i, ret, perturbs, eeprom, before, odd>>

\* ------------------------------------------------ the boolean-grid sketch
\* boards of the second sketch are NUMROWS rows of NUMCOLS cells 0 or 1;
\* cell [row][col] is grid[row + 1][col + 1]

\* gameBoard[][] initialiser
gameBoardInit ==
    << <<0, 0, 0, 0, 0, 0, 0, 0>>,
       <<0, 0, 1, 1, 0, 0, 0, 0>>,
       <<0, 1, 1, 0, 0, 0, 0, 0>>,
       <<0, 0, 1, 0, 0, 0, 0, 0>>,
       <<0, 0, 0, 0, 0, 0, 0, 0>>,
       <<0, 0, 0, 0, 0, 0, 0, 0>>,
       <<0, 0, 0, 0, 0, 0, 0, 0>>,
       <<0, 0, 0, 0, 0, 0, 0, 0>> >>

\* newGameBoard[][] initialiser
newGameBoardInit == [row \in 1..NUMROWS |-> [col \in 1..NUMCOLS |-> 0]]

\* byte gameboard[] initialiser of the second sketch, the ij sprite
gridGameboardInit == <<195, 195, 0, 3, 195, 231, 126, 60>>

\* mutant of gridIsCellAlive: the subscripts in the other order
gridIsCellAliveTransposed(grid, row, col) ==
    IF row < 0 \/ col < 0 \/ row >= NUMROWS \/ col >= NUMCOLS
    THEN FALSE
    ELSE grid[col + 1][row + 1] = 1

gridIsCellAlive(grid, row, col) ==
    IF row < 0 \/ col < 0 \/ row >= NUMROWS \/ col >= NUMCOLS
    THEN FALSE
    ELSE grid[row + 1][col + 1] = 1

\* the inner loop over colDelta
RECURSIVE gridCountCols(_, _, _, _, _, _)
gridCountCols(grid, row, col, rowDelta, colDelta, count) ==
    IF colDelta > 1 THEN count
    ELSE IF ~(colDelta = 0 /\ rowDelta = 0)
            /\ gridIsCellAlive(grid, ToChar(rowDelta + row), ToChar(colDelta + col))
         THEN gridCountCols(grid, row, col, rowDelta, colDelta + 1, (count + 1) % 256)
         ELSE gridCountCols(grid, row, col, rowDelta, colDelta + 1, count)

\* the outer loop over rowDelta
RECURSIVE gridCountRows(_, _, _, _, _)
gridCountRows(grid, row, col, rowDelta, count) ==
    IF rowDelta > 1 THEN count
    ELSE gridCountRows(grid, row, col, rowDelta + 1,
                       gridCountCols(grid, row, col, rowDelta, -1, count))

gridCountNeighbors(grid, row, col) == gridCountRows(grid, row, col, -1, 0)

\* the if-chain of the inner loop body: the value written to
\* newGameBoard[row][col]
gridCalcRule(here, numNeighbors) ==
    IF here /\ numNeighbors < 2 THEN 0
    ELSE IF here /\ (numNeighbors = 2 \/ numNeighbors = 3) THEN 1
    ELSE IF here /\ numNeighbors > 3 THEN 0
    ELSE IF ~here /\ numNeighbors = 3 THEN 1
    ELSE 0

\* the inner loop over col: newGameBoard[row] after the columns from col on
RECURSIVE gridCalcCols(_, _, _, _)
gridCalcCols(grid, newrow, row, col) ==
    IF col >= NUMCOLS THEN newrow
    ELSE gridCalcCols(grid,
                      [newrow EXCEPT ![col + 1] =
                          gridCalcRule(grid[row + 1][col + 1] # 0,
                                       gridCountNeighbors(grid, row, col))],
                      row, col + 1)

\* the outer loop over row
RECURSIVE gridCalcRows(_, _, _)
gridCalcRows(grid, new, row) ==
    IF row >= NUMROWS THEN new
    ELSE gridCalcRows(grid,
                      [new EXCEPT ![row + 1] = gridCalcCols(grid, new[row + 1], row, 0)],
                      row + 1)

gridCalculateNewGameBoard(grid, new) == gridCalcRows(grid, new, 0)

\* swapGameBoards of the second sketch: every cell copied from newGameBoard
gridSwapGameBoards(grid, new) ==
    [row \in 1..NUMROWS |-> [col \in 1..NUMCOLS |-> new[row][col]]]

\* gameBoard[x,y]: the subscript is the comma expression x,y, whose value is
\* y, so the expression is the row gameBoard[y]
commaSubscript(grid, x, y) == grid[y + 1]

\* if (gameBoard[x,y]): the row converts to the address of its first cell,
\* which is not null
displayCondition(grid, x, y) == commaSubscript(grid, x, y) # <<>>

\* the inner loop of displayGameBoard: b after the columns from y on
RECURSIVE displayCols(_, _, _, _)
displayCols(grid, x, y, b) ==
    IF y >= NUMCOLS THEN b
    ELSE displayCols(grid, x, y + 1,
                     IF displayCondition(grid, x, y)
                     THEN bitSet((b * 2) % 256, 0)
                     ELSE (b * 2) % 256)

\* the outer loop of displayGameBoard: gameboard[] after the rows from x on
RECURSIVE displayRows(_, _, _)
displayRows(grid, bytes, x) ==
    IF x >= NUMROWS THEN bytes
    ELSE displayRows(grid, [bytes EXCEPT ![x + 1] = displayCols(grid, x, 0, 0)], x + 1)

\* displayGameBoard of the second sketch: the bytes handed to setSprite
gridDisplayGameBoard(grid, bytes) == displayRows(grid, bytes, 0)

\* the grid that holds the cells of a packed board: cell [row][col] is bit col
\* of byte row
ToGrid(board) ==
    [row \in 1..NUMROWS |-> [col \in 1..NUMCOLS |-> bitRead(board[row], col - 1)]]

\* a packed board and a grid hold the same cells
Agree(board, grid) ==
    \A c \in Cells : isCellAlive(board, c[1], c[2]) = (grid[c[1] + 1][c[2] + 1] # 0)

\* ---------------------------------------------------------------- actions
NoFlags == [stable |-> FALSE, dead |-> FALSE, repeat |-> FALSE]

\* what Init and the other initial predicates share
Start ==
    /\ newgameboard = newgameboardInit
    /\ oldgameboard = oldgameboardInit
    /\ numChanges = 0
    /\ i = 0
    /\ ret = "setup"
    /\ mode = "NONE"
    /\ flags = NoFlags
    /\ events = <<>>
    /\ gen = 0
    /\ blinkerRun = FALSE
    /\ perturbs = 0
    /\ seed = 0
    /\ rngSeed = 0
    /\ eeprom = <<255, 255>>
    /\ odd = {}
    /\ terminals = 0
    /\ newGameBoard = newGameBoardInit
    /\ gridGameboard = gridGameboardInit

\* the unconnected pins give one reading
Init ==
    /\ Start
    /\ gameboard = gameboardInit
    /\ pre = gameboardInit
    /\ before = gameboardInit
    /\ pc = "setup"
    /\ noise = {512}
    /\ gameBoard = gameBoardInit

\* setup(): randomSeed(analogRead(5)) is overwritten by
\* randomSeed(analogRead(0)); then the ij sprite and the seeder
Setup ==
    /\ pc = "setup"
    /\ \E pin0 \in noise :
          setUpInitialBoard("setup", <<"sprite_ij">>, gameboard, randomSeed(pin0))
    /\ UNCHANGED <<newgameboard, oldgameboard, flags, pre, gen, noise, terminals>>
    /\ UNCHANGED gridVars

\* one iteration of the loop of perturbInitialGameBoard; the last one returns
\* through setUpInitialBoard to the caller, which renders the board
PerturbInitialGameBoard ==
    /\ pc = "perturb"
    /\ i < numChanges
    /\ \E cell \in SampleCells :
          /\ gameboard' = toggle(gameboard, cell[1], cell[2])
          /\ odd' = IF cell \in odd THEN odd \ {cell} ELSE odd \cup {cell}
    /\ i' = i + 1
    /\ IF i + 1 < numChanges
       THEN UNCHANGED <<pc, events, blinkerRun>>
       ELSE /\ pc' = "loop"
            /\ events' = Append(events, "sprite_board")
            /\ blinkerRun' = IF ret = "setup" THEN IsBlinker(gameboard')
                             ELSE blinkerRun /\ gameboard' = newgameboard
    /\ UNCHANGED <<newgameboard, oldgameboard, numChanges, ret, mode, flags, pre, gen,
                   perturbs, noise, seed, rngSeed, eeprom, before, terminals>>
    /\ UNCHANGED gridVars

\* loop(), first half: displayGameBoard() and calculateNewGameBoard()
LoopCalculate ==
    /\ pc = "loop"
    /\ newgameboard' = calculateNewGameBoard(gameboard, newgameboard)
    /\ events' = <<"sprite_board", "calculate">>
    /\ pc' = "swap"
    /\ UNCHANGED <<gameboard, oldgameboard, numChanges, i, ret, mode, flags, pre,
                   gen, blinkerRun, perturbs, noise, seed, rngSeed, eeprom, before,
                   odd, terminals>>
    /\ UNCHANGED gridVars

\* loop(), second half: swapGameBoards(), the row loop and the two branches
LoopSwap ==
    /\ pc = "swap"
    /\ \E st \in {swapGameBoards(gameboard, newgameboard, oldgameboard)} :
         \E ev \in {IF showsSprite(st) THEN events \o <<"shift", "sprite_ij">>
                    ELSE Append(events, "shift")} :
           /\ oldgameboard' = st.old
           /\ newgameboard' = st.new
           /\ flags' = [stable |-> st.stable, dead |-> st.dead, repeat |-> st.repeat]
           /\ pre' = gameboard
           /\ gen' = IF gen < GenCap THEN gen + 1 ELSE gen
           /\ UNCHANGED noise
           /\ UNCHANGED gridVars
           /\ IF reseeds(st)
              THEN /\ setUpInitialBoard("swap", ev, st.game, rngSeed)
                   /\ terminals' = IF terminals < TerminalCap THEN terminals + 1
                                   ELSE terminals
              ELSE /\ gameboard' = st.game
                   /\ events' = ev
                   /\ pc' = "loop"
                   /\ terminals' = 0
                   /\ UNCHANGED <<numChanges, i, ret, mode, blinkerRun, perturbs,
                                  seed, rngSeed, eeprom, before, odd>>

Next == Setup \/ PerturbInitialGameBoard \/ LoopCalculate \/ LoopSwap

Spec == Init /\ [][Next]_vars

\* ------------------------------------------------ the seeder over seeds
\* the same program with two readings of the unconnected pins, the ends of
\* the range of analogRead
SeedInit ==
    /\ Start
    /\ gameboard = gameboardInit
    /\ pre = gameboardInit
    /\ before = gameboardInit
    /\ pc = "setup"
    /\ noise = {0, 1023}
    /\ gameBoard = gameBoardInit

SeedSpec == SeedInit /\ [][Next]_vars

\* --------------------------------------------- the two sketches side by side
\* a packed board with the cells of `cells` toggled
RECURSIVE Toggled(_, _)
Toggled(board, cells) ==
    IF cells = {} THEN board
    ELSE LET c == CHOOSE x \in cells : TRUE
         IN  Toggled(toggle(board, c[1], c[2]), cells \ {c})

\* the packed board that holds the cells of a grid
Packed(grid) ==
    Toggled(zeroBoardInit, {c \in Cells : grid[c[1] + 1][c[2] + 1] # 0})

\* boards the loops start from: the two hard-coded boards, each with any of
\* the sample cells toggled as the seeder of either sketch may leave it, and
\* the full board
GridBoards ==
    {Toggled(b, cs) : b \in {gameboardInit, Packed(gameBoardInit)},
                      cs \in SUBSET SampleCells}
    \cup {FullBoard}

\* both sketches at the top of loop() with the same cells alive
GridInit ==
    /\ Start
    /\ gameboard \in GridBoards
    /\ gameBoard = ToGrid(gameboard)
    /\ pre = gameboard
    /\ before = gameboard
    /\ pc = "grid_display"
    /\ noise = {512}

\* what the steps of the second sketch leave alone
gridFrame ==
    UNCHANGED <<numChanges, i, ret, mode, flags, events, blinkerRun, perturbs,
                noise, seed, rngSeed, eeprom, before, odd, terminals>>

\* loop() of the second sketch: displayGameBoard()
GridDisplay ==
    /\ pc = "grid_display"
    /\ gridGameboard' = gridDisplayGameBoard(gameBoard, gridGameboard)
    /\ pc' = "grid_calculate"
    /\ gridFrame
    /\ UNCHANGED <<gameboard, newgameboard, oldgameboard, pre, gen, gameBoard, newGameBoard>>

\* calculateNewGameBoard() of either sketch
GridCalculate ==
    /\ pc = "grid_calculate"
    /\ newGameBoard' = gridCalculateNewGameBoard(gameBoard, newGameBoard)
    /\ newgameboard' = calculateNewGameBoard(gameboard, newgameboard)
    /\ pc' = "grid_swap"
    /\ gridFrame
    /\ UNCHANGED <<gameboard, oldgameboard, pre, gen, gameBoard, gridGameboard>>

\* swapGameBoards() of the second sketch, and the row loop of swapGameBoards()
\* of the first
GridSwap ==
    /\ pc = "grid_swap"
    /\ gameBoard' = gridSwapGameBoards(gameBoard, newGameBoard)
    /\ \E st \in {swapGameBoards(gameboard, newgameboard, oldgameboard)} :
          /\ gameboard' = st.game
          /\ oldgameboard' = st.old
    /\ pre' = gameboard
    /\ gen' = IF gen < GenCap THEN gen + 1 ELSE gen
    /\ pc' = "grid_display"
    /\ gridFrame
    /\ UNCHANGED <<newgameboard, newGameBoard, gridGameboard>>

GridNext == GridDisplay \/ GridCalculate \/ GridSwap

GridSpec == GridInit /\ [][GridNext]_vars

\* ----------------------------------------------- the rule engine alone
\* Every board is one the perturbation can leave behind, so the rule engine is
\* also run once from each board of PureBoards: the two top and the two bottom
\* rows are drawn from PureBytes, the four middle rows share one byte.
PureBytes == {0, 129, 255}

PureBoards ==
    {<<t[1], t[2], m, m, m, m, t[3], t[4]>> :
        t \in [1..4 -> PureBytes], m \in PureBytes \cup {24}}

PureInit ==
    /\ gameboard \in PureBoards
    /\ newgameboard \in {zeroBoardInit, gameboard}
    /\ oldgameboard = oldgameboardInit
    /\ pc = "loop"
    /\ numChanges = 0
    /\ i = 0
    /\ ret = "setup"
    /\ mode = "NONE"
    /\ flags = NoFlags
    /\ events = <<>>
    /\ pre = gameboard
    /\ gen = 0
    /\ blinkerRun = FALSE
    /\ perturbs = 0
    /\ noise = {512}
    /\ seed = 0
    /\ rngSeed = 0
    /\ eeprom = <<255, 255>>
    /\ before = gameboard
    /\ odd = {}
    /\ terminals = 0
    /\ gameBoard = gameBoardInit
    /\ newGameBoard = newGameBoardInit
    /\ gridGameboard = gridGameboardInit

PureSpec == PureInit /\ [][LoopCalculate]_vars

\* ------------------------------------------------- reference definitions
\* the alive cells at distance 1 of (r, c), counted on the set of alive cells
AliveAround(board, r, c) ==
    {p \in AliveCells(board) :
        /\ p # <<r, c>>
        /\ p[1] - r \in {-1, 0, 1}
        /\ p[2] - c \in {-1, 0, 1}}

\* the Life decision table
LifeTable(alive, n) == IF alive THEN n = 2 \/ n = 3 ELSE n = 3

\* the cells alive in the successor of a board, by the decision table
Successor(board) ==
    {p \in Cells :
        LifeTable(p \in AliveCells(board), Cardinality(AliveAround(board, p[1], p[2])))}

IsBoard(b) == b \in [1..NUMROWS -> 0..255]

\* the cycle's shift has been done (events is cleared when the next cycle starts)
Shifted == \E k \in 1..Len(events) : events[k] = "shift"

\* event a comes before event b in the current cycle
Before(a, b) ==
    \E j \in 1..Len(events), k \in 1..Len(events) :
        j < k /\ events[j] = a /\ events[k] = b

\* ------------------------------------------------------------------ claims
\* C1: calculateNewGameBoard sets every cell of the next board by the Life
\* decision table applied to the current board, the neighbour count being the
\* number of alive cells among the 8 surrounding coordinates.
C1_DecisionTable ==
    pc = "swap" =>
        /\ IsBoard(newgameboard)
        /\ AliveCells(newgameboard) = Successor(gameboard)

\* C1 witness: the engine has run on a board where births, survivals, deaths by
\* under-population and deaths by overcrowding all happen.
C1_Witness ==
    /\ pc = "swap"
    /\ \E p \in Cells : p \notin AliveCells(gameboard) /\ p \in AliveCells(newgameboard)
    /\ \E p \in Cells : p \in AliveCells(gameboard) /\ p \in AliveCells(newgameboard)
    /\ \E p \in AliveCells(gameboard) :
          p \notin AliveCells(newgameboard) /\ Cardinality(AliveAround(gameboard, p[1], p[2])) < 2
    /\ \E p \in AliveCells(gameboard) :
          p \notin AliveCells(newgameboard) /\ Cardinality(AliveAround(gameboard, p[1], p[2])) > 3

\* the char values isCellAlive is probed with: the board, one and two steps
\* beyond each edge, and the ends of the char range
ProbeChars == (-2..9) \cup {-128, 127}

\* C2: isCellAlive returns false for every coordinate outside the board,
\* -1 and 8 included, and the stored cell for every coordinate inside; it reads
\* no other row or column instead.
C2_IsCellAlive ==
    \A r \in ProbeChars, c \in ProbeChars :
        isCellAlive(gameboard, ToChar(r), ToChar(c)) = (<<r, c>> \in AliveCells(gameboard))

\* C2 witness: the engine has run on a board whose four edges hold alive cells,
\* and the reads one step outside each corner are dead.
C2_Witness ==
    /\ pc = "swap"
    /\ {<<0, 0>>, <<0, 7>>, <<7, 0>>, <<7, 7>>} \subseteq AliveCells(gameboard)
    /\ isCellAlive(gameboard, 7, 7)
    /\ ~isCellAlive(gameboard, 8, 7)
    /\ ~isCellAlive(gameboard, 7, 8)
    /\ ~isCellAlive(gameboard, -1, 0)
    /\ ~isCellAlive(gameboard, 0, -1)

\* C3: countNeighbors(r, c) is the number of alive in-board cells at distance 1
\* of (r, c), without wraparound: it is in 0..8, and for the corner (0, 0) it
\* counts only (0,1), (1,0), (1,1) and is in 0..3 whatever row 7 and column 7 hold.
C3_CountNeighbors ==
    /\ \A p \in Cells :
          /\ countNeighbors(gameboard, p[1], p[2]) = Cardinality(AliveAround(gameboard, p[1], p[2]))
          /\ countNeighbors(gameboard, p[1], p[2]) \in 0..8
    /\ countNeighbors(gameboard, 0, 0)
          = Cardinality(AliveCells(gameboard) \cap {<<0, 1>>, <<1, 0>>, <<1, 1>>})
    /\ countNeighbors(gameboard, 0, 0) \in 0..3

\* C3 witness: the engine has run on a board with row 7 and column 7 alive,
\* one of the corner's three neighbours alive, and an inner cell with 8 neighbours.
C3_Witness ==
    /\ pc = "swap"
    /\ \A k \in 0..7 : <<7, k>> \in AliveCells(gameboard)
    /\ {<<0, 7>>, <<1, 7>>} \subseteq AliveCells(gameboard)
    /\ AliveCells(gameboard) \cap {<<0, 1>>, <<1, 0>>, <<1, 1>>} = {<<1, 0>>}
    /\ countNeighbors(gameboard, 0, 0) = 1
    /\ \E p \in Cells : countNeighbors(gameboard, p[1], p[2]) = 8

\* C4: calculateNewGameBoard leaves gameboard and oldgameboard unchanged, and
\* the scratch board it leaves depends on the current board only: it is what
\* the call yields from an all-dead and from an all-alive scratch board, so
\* every one of the 64 cells is written.
C4_PureCalculate ==
    [][pc = "loop" =>
          /\ gameboard' = gameboard
          /\ oldgameboard' = oldgameboard
          /\ newgameboard' = calculateNewGameBoard(gameboard, zeroBoardInit)
          /\ newgameboard' = calculateNewGameBoard(gameboard, FullBoard)]_vars

\* C4 witness: a call, not the first, that found the current board in the
\* scratch board (no perturbation since the shift) and left another board there.
C4_Witness ==
    /\ pc = "swap"
    /\ gen >= 1
    /\ mode = "LOW"
    /\ newgameboard # gameboard
    /\ newgameboard # zeroBoardInit

\* C5: the stable flag of a cycle is true exactly when the successor of the
\* current board, as it was before the shift, equals that board; a board that
\* holds only a 2x2 block away from the edges is classified stable.
C5_Stable ==
    [][pc = "swap" =>
          /\ flags'.stable = (calculateNewGameBoard(gameboard, zeroBoardInit) = gameboard)
          /\ (IsBlock(gameboard) => flags'.stable)]_vars

\* C5 witness: a shift whose current board was a block, classified stable.
C5_Witness == Shifted /\ IsBlock(pre) /\ flags.stable

SeederRan == \E k \in 1..Len(events) : events[k] = "seeder"

\* C7 as stated: whenever the seeder has run with the selector LOW, at startup
\* or on a reseed, the current board is the hard-coded baseline board.
C7_LowGivesBaseline ==
    SeederRan /\ pc = "loop" /\ mode = "LOW" => gameboard = gameboardInit

\* C8: a cycle invokes the seeder exactly when dead, stable or repeat holds,
\* and then after the shift; dead alone suffices, since dead implies stable.
C8_TerminalReseeds ==
    Shifted =>
        /\ (flags.dead \/ flags.stable \/ flags.repeat) <=> SeederRan
        /\ (SeederRan => Before("shift", "seeder"))

\* C8 witness: a cycle that reseeds with dead true and repeat false.
C8_Witness ==
    Shifted /\ flags.dead /\ ~flags.repeat /\ SeederRan /\ Before("shift", "seeder")

\* C9: in a cycle whose current board is all dead, dead and stable are both
\* true and both branches run, the ij sprite before the reseed.
C9_DeadAndStable ==
    Shifted /\ pre = zeroBoardInit =>
        /\ flags.dead
        /\ flags.stable
        /\ Before("shift", "sprite_ij")
        /\ Before("sprite_ij", "seeder")

\* C9 witness: a cycle on the all-dead board that has run both branches.
C9_Witness ==
    /\ Shifted
    /\ pre = zeroBoardInit
    /\ flags.dead /\ flags.stable
    /\ Before("sprite_ij", "seeder")
    /\ pc = "loop"

\* C10: the all-dead board advances to the all-dead board, and the dead flag
\* of a cycle is true exactly when the current board, before the shift, has no
\* alive cell; a board with alive cells and an all-dead successor is not dead.
C10_Dead ==
    [][/\ (pc = "loop" /\ gameboard = zeroBoardInit => newgameboard' = zeroBoardInit)
       /\ (pc = "swap" => flags'.dead = (AliveCells(gameboard) = {}))]_vars

\* C10 witness: a cycle whose current board had alive cells and an all-dead
\* successor, not classified dead.
C10_Witness ==
    /\ Shifted
    /\ AliveCells(pre) # {}
    /\ gameboard = zeroBoardInit
    /\ newgameboard = zeroBoardInit
    /\ ~flags.dead

\* ------------------------------------------------------------ the seeder
\* the step in which setUpInitialBoard takes the MID branch
EntersMid == pc # "perturb" /\ pc' = "perturb" /\ mode' = "MID"

\* C11: with the EEPROM code compiled out, the MID branch seeds the RNG with
\* the seed read in that same call, reads and writes no stored value, and goes
\* on to perturb the board; the HIGH branch with the same seed leaves the same
\* RNG seed and the same stored bytes.
C11_MidAsHigh ==
    [][EntersMid =>
          /\ seed' \in noise
          /\ rngSeed' = seed'
          /\ eeprom' = eeprom
          /\ highSeeding(eeprom, seed') =
                 [eeprom |-> eeprom', seed |-> seed', rngSeed |-> rngSeed']
          /\ pc' = "perturb"
          /\ numChanges' \in 20..99
          /\ i' = 0]_vars

\* the MID branch has run on a reseed and seeded the RNG with the upper
\* reading
C11_Witness ==
    /\ pc = "perturb"
    /\ i = 0
    /\ mode = "MID"
    /\ ret = "swap"
    /\ seed = 1023
    /\ rngSeed = 1023
    /\ eeprom = <<255, 255>>

\* the cells whose value differs between two boards
Changed(a, b) == {c \in Cells : isCellAlive(a, c[1], c[2]) # isCellAlive(b, c[1], c[2])}

\* perturbInitialGameBoard is running or has just returned
Perturbing == pc = "perturb" \/ (pc = "loop" /\ SeederRan /\ mode \in {"HIGH", "MID"})

\* C12: perturbInitialGameBoard draws numChanges in [20, 100) and makes
\* exactly numChanges toggles, each of one cell of the board; the cells that
\* differ from the board it found are exactly the cells sampled an odd number
\* of times, so they are at most as many as the toggles made and of the same
\* parity, and no cell that was not sampled changes.
C12_Perturb ==
    Perturbing =>
        /\ numChanges \in 20..99
        /\ i <= numChanges
        /\ (pc = "loop" => i = numChanges)
        /\ odd \subseteq Cells
        /\ Changed(gameboard, before) = odd
        /\ Cardinality(odd) <= i
        /\ (i - Cardinality(odd)) % 2 = 0

\* a call of 21 toggles has returned and one cell differs: the other samples
\* fell in pairs
C12_Witness ==
    /\ pc = "loop"
    /\ SeederRan
    /\ mode = "HIGH"
    /\ numChanges = 21
    /\ i = 21
    /\ Cardinality(odd) = 1
    /\ Changed(gameboard, before) = odd

\* ------------------------------------------------- the shift over cycles
\* C13: in every cycle repeat is true exactly when the next board equals the
\* previous board cell for cell, and from the second cycle on the previous
\* board is the board that was current at the start of the cycle before, two
\* generations back from next; a reseed in the cycle before changes neither.
C13_Repeat ==
    [][pc = "swap" =>
          /\ flags'.repeat = (newgameboard = oldgameboard)
          /\ (gen >= 1 => oldgameboard = pre)]_vars

\* the cycle after a reseed whose perturbation ended on the board pre: repeat
\* is true and stable is not
C13_Witness ==
    /\ Shifted
    /\ gen >= 2
    /\ terminals = 2
    /\ perturbs = 1
    /\ ret = "swap"
    /\ Changed(pre, before) = odd
    /\ flags.repeat
    /\ ~flags.stable

\* C14 as stated: whenever the seeder runs the HIGH or the MID branch, at
\* startup or on a reseed, perturbInitialGameBoard is handed the hard-coded
\* board.
C14_PerturbsBaseline == pc = "perturb" => before = gameboardInit

\* C15: the shift leaves in oldgameboard the board that was current before it
\* and in gameboard the successor of that board; when neither stable nor
\* repeat is set the loop goes on from these boards, with no reseed.
C15_Shift ==
    [][pc = "swap" =>
          /\ oldgameboard' = gameboard
          /\ \E board \in {calculateNewGameBoard(gameboard, zeroBoardInit)} :
                IF flags'.stable \/ flags'.repeat
                THEN mode' = "LOW" => gameboard' = board
                ELSE /\ gameboard' = board
                     /\ pc' = "loop"
                     /\ ~SeederRan'
                     /\ terminals' = 0]_vars

\* a shift with no terminal condition that moved three different boards along
C15_Witness ==
    /\ Shifted
    /\ pc = "loop"
    /\ gen >= 2
    /\ ~flags.stable
    /\ ~flags.repeat
    /\ ~SeederRan
    /\ oldgameboard = pre
    /\ gameboard = newgameboard
    /\ gameboard # oldgameboard

C18_FirstCycle ==
    [][pc = "swap" /\ gen = 0 =>
          /\ oldgameboard = zeroBoardInit
          /\ flags'.repeat =
                 (calculateNewGameBoard(gameboard, zeroBoardInit) = zeroBoardInit)]_vars

\* the first cycle from a perturbed board with alive cells whose successor is
\* all dead: repeat is set
C18_Witness ==
    /\ Shifted
    /\ gen = 1
    /\ perturbs = 1
    /\ flags.repeat
    /\ AliveCells(pre) # {}
    /\ gameboard = zeroBoardInit
    /\ oldgameboard = pre

\* ------------------------------------------------ the boolean-grid sketch
\* C16 as stated: the byte displayGameBoard of the boolean-grid sketch
\* produces for row x has bit 7 - y (column 0 the most significant bit) set
\* exactly when cell (x, y) is alive.
C16_DisplayBits ==
    pc = "grid_calculate" =>
        \A c \in Cells :
            (bitRead(gridGameboard[c[1] + 1], (NUMCOLS - 1) - c[2]) = 1)
                <=> (gameBoard[c[1] + 1][c[2] + 1] # 0)

\* C19: from boards that hold the same cells, calculateNewGameBoard of the two
\* sketches leaves next boards that hold the same cells (bit col of byte row
\* against cell [row][col]), and so do the shifts, generation after generation.
C19_SketchesAgree ==
    pc \in {"grid_display", "grid_calculate", "grid_swap"} =>
        /\ Agree(gameboard, gameBoard)
        /\ (pc = "grid_swap" => Agree(newgameboard, newGameBoard))

\* the third generation computed by both sketches, cells born and cells dying,
\* one of them on an edge
C19_Witness ==
    /\ pc = "grid_swap"
    /\ gen = 2
    /\ Agree(newgameboard, newGameBoard)
    /\ AliveCells(newgameboard) \ AliveCells(gameboard) # {}
    /\ AliveCells(gameboard) \ AliveCells(newgameboard) # {}
    /\ \E c \in AliveCells(newgameboard) : c[1] = 0 \/ c[2] = 0

====
